---- MODULE Spec2Model ----
(***************************************************************************)
(* Model of the fingerprint HAL adapter, aidl/fingerprint/Fingerprint.cpp: *)
(* driver resolution in the constructor, sensor type resolution, the       *)
(* capability query, the notification router and session creation.         *)
(*                                                                         *)
(* Strings that the code splits or parses are sequences of one-character   *)
(* strings; strings that the code only compares are TLA+ strings.          *)
(* A null pointer is 0; adapters, sessions and clients are numbered from 1.*)
(***************************************************************************)
EXTENDS Integers, Sequences, FiniteSets, TLC

\* ------------------------------------------------------------------ bounds
MaxThreads == 2
MaxDriverThreads == 1
MaxSessions == 2
MaxClients == 2
MaxEvents == 2
MaxLifeEvents == 1
MaxRaceEvents == 1
MaxLocFields == 4
MaxLocEntries == 2

\* The adapter objects a process may construct; the service constructs one.
Adapters == {1, 2}
TheAdapter == {1}
Threads == 1..MaxThreads
DriverThreads == 1..MaxDriverThreads
SessionIds == 1..MaxSessions
Clients == 1..MaxClients

\* --------------------------------------------------------- program constants
MAX_ENROLLMENTS_PER_USER == 5

kModules ==
  << <<"f","o","r","t","s","e","n","s","e">>,
     <<"f","p","c">>,
     <<"f","p","c","_","f","o","d">>,
     <<"g","o","o","d","i","x">>,
     <<"g","o","o","d","i","x",":","g","f","_","f","i","n","g","e","r","p","r","i","n","t">>,
     <<"g","o","o","d","i","x","_","f","o","d">>,
     <<"g","o","o","d","i","x","_","f","o","d","6">>,
     <<"s","i","l","e","a","d">>,
     <<"s","y","n","a">>,
     <<"g","o","o","d","i","x","_","u","s">> >>

FINGERPRINT_HARDWARE_MODULE_ID == <<"f","i","n","g","e","r","p","r","i","n","t">>

\* The outcomes of one openFingerprintHal call, one per return statement.
HalOutcomes == {"load_fail", "null_module", "no_open_method", "open_fail",
                "set_notify_fail", "ok"}

\* Values of the "type" configuration key: the five recognised ones and
\* some that are not.
ValidTypeProps == {"udfps", "udfps_optical", "side", "home", "rear"}
TypeProps == ValidTypeProps \cup {"", "UDFPS", "front"}

SensorTypes == {"UNKNOWN", "UNDER_DISPLAY_ULTRASONIC", "UNDER_DISPLAY_OPTICAL",
                "POWER_BUTTON", "HOME_BUTTON", "REAR"}

\* Raw driver events (fingerprint_msg_t), by message type.
Msgs == {"FINGERPRINT_ACQUIRED", "FINGERPRINT_AUTHENTICATED"}

\* ------------------------------------------------------------------ helpers
\* android::base::Split(s, delim) for a one-character delimiter: the pieces
\* between delimiters, empty pieces kept; the empty string gives one empty
\* piece.
FindFirstOf(s, delim, base) ==
  LET hits == {i \in base..Len(s) : s[i] = delim}
  IN IF hits = {} THEN 0 ELSE CHOOSE i \in hits : \A j \in hits : i <= j

RECURSIVE SplitFrom(_, _, _, _)
SplitFrom(s, delim, base, result) ==
  LET found == FindFirstOf(s, delim, base)
      piece == IF found = 0 THEN SubSeq(s, base, Len(s)) ELSE SubSeq(s, base, found - 1)
  IN IF found = 0 THEN Append(result, piece)
     ELSE SplitFrom(s, delim, found + 1, Append(result, piece))

Split(s, delim) == SplitFrom(s, delim, 1, << >>)

\* class_name and class_module_id of a kModules entry.
ClassName(module) ==
  LET parts == Split(module, ":")
  IN IF Len(parts) = 2 THEN parts[1] ELSE module

ClassModuleId(module) ==
  LET parts == Split(module, ":")
  IN IF Len(parts) = 2 THEN parts[2] ELSE FINGERPRINT_HARDWARE_MODULE_ID

\* android::base::ParseInt(s, &out) for int32_t: leading white space is
\* skipped, then an optional sign and at least one digit (base 16 after a
\* leading "0x"), up to the end of the string; the value must fit int32_t.
INT32_MAX == 2147483647
INT32_MIN == (0 - INT32_MAX) - 1

IsSpace(c) == c \in {" ", "\t", "\n"}

DigitValue(c) ==
  CASE c = "0" -> 0 [] c = "1" -> 1 [] c = "2" -> 2 [] c = "3" -> 3
    [] c = "4" -> 4 [] c = "5" -> 5 [] c = "6" -> 6 [] c = "7" -> 7
    [] c = "8" -> 8 [] c = "9" -> 9
    [] c \in {"a", "A"} -> 10 [] c \in {"b", "B"} -> 11 [] c \in {"c", "C"} -> 12
    [] c \in {"d", "D"} -> 13 [] c \in {"e", "E"} -> 14 [] c \in {"f", "F"} -> 15
    [] OTHER -> 99

RECURSIVE SkipSpace(_, _)
SkipSpace(s, i) ==
  IF i <= Len(s) /\ IsSpace(s[i]) THEN SkipSpace(s, i + 1) ELSE i

\* Whether acc * base + sgn * digit stays within int32_t.
Fits(acc, base, sgn, digit) ==
  IF sgn = 1
  THEN acc <= (INT32_MAX - digit) \div base
  ELSE LET m == INT32_MIN + digit
       IN acc >= (IF m % base = 0 THEN m \div base ELSE (m \div base) + 1)

\* The digits of s from position i on, in the given base and with the given
\* sign: <<value, next position, the value fits int32_t>>.
RECURSIVE Digits(_, _, _, _, _)
Digits(s, i, base, sgn, acc) ==
  IF i <= Len(s) /\ DigitValue(s[i]) < base
  THEN IF Fits(acc, base, sgn, DigitValue(s[i]))
       THEN Digits(s, i + 1, base, sgn, acc * base + sgn * DigitValue(s[i]))
       ELSE <<0, i, FALSE>>
  ELSE <<acc, i, TRUE>>

ParseInt(s) ==
  LET b == SkipSpace(s, 1)
      base == IF b + 1 <= Len(s) /\ s[b] = "0" /\ s[b + 1] \in {"x", "X"}
              THEN 16 ELSE 10
      neg == b <= Len(s) /\ s[b] = "-"
      signed == b <= Len(s) /\ s[b] \in {"-", "+"}
      d0 == IF signed THEN b + 1 ELSE b
      \* strtoll skips a "0x" prefix in base 16 when a hex digit follows it
      pre == base = 16 /\ d0 + 2 <= Len(s) /\ s[d0] = "0" /\ s[d0 + 1] \in {"x", "X"}
               /\ DigitValue(s[d0 + 2]) < 16
      d1 == IF pre THEN d0 + 2 ELSE d0
      r == Digits(s, d1, base, IF neg THEN -1 ELSE 1, 0)
      any == r[2] > d1
  IN IF r[3] /\ any /\ r[2] = Len(s) + 1
     THEN [ok |-> TRUE, val |-> r[1]]
     ELSE [ok |-> FALSE, val |-> 0]

\* Fingerprint::getSensorLocations on the value of "sensor_location": the
\* parsed records, and the number of "Invalid sensor location input" logs.
RECURSIVE LocationsFrom(_, _, _, _)
LocationsFrom(loc, entries, i, acc) ==
  IF i > Len(entries) THEN acc
  ELSE
    LET dim == Split(entries[i], "|")
    IN IF Len(dim) # 3 /\ Len(dim) # 4
       THEN LocationsFrom(loc, entries, i + 1,
              IF loc # << >> THEN [acc EXCEPT !.logged = @ + 1] ELSE acc)
       ELSE
         LET x == ParseInt(dim[1])
             y == ParseInt(dim[2])
             r == ParseInt(dim[3])
             d == IF Len(dim) = 4 THEN dim[4] ELSE << >>
             isValidStr == x.ok /\ y.ok /\ r.ok /\ (Len(dim) = 4 => d # << >>)
         IN LocationsFrom(loc, entries, i + 1,
              IF isValidStr
              THEN [acc EXCEPT !.locations =
                      Append(@, [sensorLocationX |-> x.val, sensorLocationY |-> y.val,
                                 sensorRadius |-> r.val, display |-> d])]
              ELSE acc)

\* A parser that stops at the first entry it cannot use.
getSensorLocationsUntilInvalid(loc) ==
  LET all == Split(loc, ",")
      bad == {i \in 1..Len(all) :
                LocationsFrom(loc, <<all[i]>>, 1,
                              [locations |-> << >>, logged |-> 0]).locations = << >>}
      upto == IF bad = {} THEN Len(all)
              ELSE (CHOOSE i \in bad : \A j \in bad : i <= j) - 1
  IN LocationsFrom(loc, SubSeq(all, 1, upto), 1, [locations |-> << >>, logged |-> 0])

getSensorLocations(loc) ==
  LocationsFrom(loc, Split(loc, ","), 1, [locations |-> << >>, logged |-> 0])

\* -------------------------------------------------------------------- state
VARIABLES
  config,               \* the configuration collaborator: key -> value
  sInstance,            \* static Fingerprint* sInstance (0: nullptr)
  aborted,              \* the process died in LOG(FATAL) / CHECK
  cpc,                  \* per adapter: position of its constructor
  idx,                  \* per adapter: position of the kModules loop
  mDevice,              \* per adapter: 0, or the kModules index of the opened device
  attempts,             \* per adapter: the openFingerprintHal calls made, in order
  halOutcome,           \* per adapter: how the driver module behaved in the latest one
  openCount,            \* driver devices opened and not closed
  registered,           \* per adapter: a driver holds Fingerprint::notify
  sensorTypeProp,       \* per adapter: the "type" value read by the constructor
  mSensorType,
  mUdfpsHandlerFactory, \* per adapter: the factory is non-null
  mUdfpsHandler,        \* per adapter: the handler is non-null
  udfpsInit,            \* per adapter: -1, or the device init() was called with
  mSession,             \* per adapter: 0, or the id of the Session it points to
  sess,                 \* the Session objects, by id
  nextSid,              \* the id of the next Session to be made
  clientAlive,          \* per client process: it has not died
  tpc, tthis, tcb, temp, csOut, gspCfg,   \* IPC dispatch threads
  lastRet,              \* what the call that returned last gave its caller
  invalidLocLogs,       \* "Invalid sensor location input" logs of the last getSensorProps
  teardown,             \* per adapter: what its destructor did, in order
  npc, thisPtr, nmsg, nev,                             \* driver callback threads
  evCount, log          \* driver events delivered; what became of each

ctorVars == <<sInstance, cpc, idx, mDevice, attempts, halOutcome, openCount, registered,
              sensorTypeProp, mSensorType, mUdfpsHandlerFactory, mUdfpsHandler,
              udfpsInit, teardown>>
sessVars == <<mSession, sess, nextSid, clientAlive>>
ipcVars == <<tpc, tthis, tcb, temp, csOut, gspCfg, lastRet, invalidLocLogs>>
drvVars == <<npc, thisPtr, nmsg, nev, evCount, log>>
vars == <<config, aborted, ctorVars, sessVars, ipcVars, drvVars>>

NumModules == Len(kModules)

\* A Session that has not been made yet.
NoSession ==
  [constructed |-> FALSE, visible |-> FALSE, closed |-> FALSE, device |-> 0,
   udfps |-> FALSE, cb |-> 0, owner |-> 0, links |-> {}, obit |-> FALSE,
   handed |-> {}]

\* No call has returned yet.
NoRet == [call |-> "none", status |-> "none", out |-> 0]

\* ------------------------------------------------------------ configuration
\* Values of "sensor_location" the model draws from.
LocTexts ==
  { << >>,
    <<"1","|","2","|","3">>,
    <<"1","|","2","|","3",",","4","|","5","|","6","|","d">> }

\* Values of "sensor_location" built from fields: up to MaxLocEntries
\* entries of up to MaxLocFields fields each, a field being empty, a
\* number, a negative number or a name.
LocFields == { << >>, <<"7">>, <<"-","3">>, <<"d">> }

RECURSIVE JoinWith(_, _)
JoinWith(pieces, sep) ==
  IF Len(pieces) = 0 THEN << >>
  ELSE IF Len(pieces) = 1 THEN pieces[1]
  ELSE pieces[1] \o <<sep>> \o JoinWith(Tail(pieces), sep)

LocEntries ==
  { JoinWith(fs, "|") : fs \in UNION { [1..n -> LocFields] : n \in 1..MaxLocFields } }

LocInputs ==
  { JoinWith(es, ",") : es \in UNION { [1..n -> LocEntries] : n \in 1..MaxLocEntries } }

ConfigOf(type, loc) ==
  [type |-> type, sensor_location |-> loc, sensor_id |-> 0, sensor_strength |-> 2,
   navigation_gesture |-> FALSE, detect_interaction |-> FALSE,
   display_touch |-> TRUE, control_illumination |-> FALSE]

\* No adapter has been constructed yet.
InitAdapters ==
  /\ sInstance = 0
  /\ cpc = [a \in Adapters |-> "unborn"]
  /\ idx = [a \in Adapters |-> 1]
  /\ mDevice = [a \in Adapters |-> 0]
  /\ attempts = [a \in Adapters |-> << >>]
  /\ halOutcome = [a \in Adapters |-> "none"]
  /\ openCount = 0
  /\ registered = [a \in Adapters |-> FALSE]
  /\ sensorTypeProp = [a \in Adapters |-> ""]
  /\ mSensorType = [a \in Adapters |-> "UNKNOWN"]
  /\ mUdfpsHandlerFactory = [a \in Adapters |-> FALSE]
  /\ mUdfpsHandler = [a \in Adapters |-> FALSE]
  /\ udfpsInit = [a \in Adapters |-> -1]
  /\ teardown = [a \in Adapters |-> << >>]

\* No session has been made, no call is in progress, no event was delivered.
InitCalls ==
  /\ aborted = FALSE
  /\ mSession = [a \in Adapters |-> 0]
  /\ sess = [s \in SessionIds |-> NoSession]
  /\ nextSid = 1
  /\ clientAlive = [c \in Clients |-> TRUE]
  /\ tpc = [t \in Threads |-> "idle"]
  /\ tthis = [t \in Threads |-> 0]
  /\ tcb = [t \in Threads |-> 0]
  /\ temp = [t \in Threads |-> 0]
  /\ csOut = [t \in Threads |-> 0]
  /\ gspCfg = [t \in Threads |-> << >>]
  /\ lastRet = NoRet
  /\ invalidLocLogs = 0
  /\ npc = [d \in DriverThreads |-> "idle"]
  /\ thisPtr = [d \in DriverThreads |-> 0]
  /\ nmsg = [d \in DriverThreads |-> "none"]
  /\ nev = [d \in DriverThreads |-> 0]
  /\ evCount = 0
  /\ log = << >>

\* ------------------------------------------------------------- construction
\* Fingerprint::openFingerprintHal: what one call does, given how the
\* driver module behaves. dev: the call returns a device; opened: the
\* module's open succeeded; notify: set_notify accepted the callback.
openFingerprintHal(outcome) ==
  CASE outcome = "load_fail" -> [dev |-> FALSE, opened |-> FALSE, notify |-> FALSE]
    [] outcome = "null_module" -> [dev |-> FALSE, opened |-> FALSE, notify |-> FALSE]
    [] outcome = "no_open_method" -> [dev |-> FALSE, opened |-> FALSE, notify |-> FALSE]
    [] outcome = "open_fail" -> [dev |-> FALSE, opened |-> FALSE, notify |-> FALSE]
    [] outcome = "set_notify_fail" -> [dev |-> FALSE, opened |-> TRUE, notify |-> FALSE]
    [] outcome = "ok" -> [dev |-> TRUE, opened |-> TRUE, notify |-> TRUE]

\* A constructor that records the first instance only.
CtorBeginKeepFirst(a) ==
  /\ ~aborted
  /\ cpc[a] = "unborn"
  /\ sInstance' = IF sInstance = 0 THEN a ELSE sInstance
  /\ cpc' = [cpc EXCEPT ![a] = IF mDevice[a] # 0 THEN "type" ELSE "probe"]
  /\ UNCHANGED <<config, aborted, idx, mDevice, attempts, halOutcome, openCount,
                 registered, sensorTypeProp, mSensorType, mUdfpsHandlerFactory,
                 mUdfpsHandler, udfpsInit, teardown, sessVars, ipcVars, drvVars>>

\* The constructor's entry: sInstance = this, then the mDevice test.
CtorBegin(a) ==
  /\ ~aborted
  /\ cpc[a] = "unborn"
  /\ sInstance' = a
  /\ cpc' = [cpc EXCEPT ![a] = IF mDevice[a] # 0 THEN "type" ELSE "probe"]
  /\ UNCHANGED <<config, aborted, idx, mDevice, attempts, halOutcome, openCount,
                 registered, sensorTypeProp, mSensorType, mUdfpsHandlerFactory,
                 mUdfpsHandler, udfpsInit, teardown, sessVars, ipcVars, drvVars>>

\* A loop that lacks the break after a successful open.
LoopWithoutBreak(dev, i) == i < NumModules

\* Whether the kModules loop goes on after an openFingerprintHal call that
\* returned dev at position i.
LoopContinues(dev, i) == ~dev /\ i < NumModules

\* One iteration of the kModules loop.
CtorProbe(a, outcome) ==
  /\ ~aborted
  /\ cpc[a] = "probe"
  /\ LET module == kModules[idx[a]]
         r == openFingerprintHal(outcome)
     IN /\ mDevice' = [mDevice EXCEPT ![a] = IF r.dev THEN idx[a] ELSE 0]
        /\ attempts' = [attempts EXCEPT ![a] =
                          Append(@, [class_name |-> ClassName(module),
                                     class_module_id |-> ClassModuleId(module),
                                     index |-> idx[a],
                                     opened |-> r.dev])]
        /\ halOutcome' = [halOutcome EXCEPT ![a] = outcome]
        /\ openCount' = IF r.opened THEN openCount + 1 ELSE openCount
        /\ registered' = [registered EXCEPT ![a] = @ \/ r.notify]
        /\ IF LoopContinues(r.dev, idx[a])
           THEN /\ idx' = [idx EXCEPT ![a] = @ + 1]
                /\ cpc' = cpc
           ELSE /\ idx' = idx
                /\ cpc' = [cpc EXCEPT ![a] = "type"]
  /\ UNCHANGED <<config, aborted, sInstance, sensorTypeProp, mSensorType,
                 mUdfpsHandlerFactory, mUdfpsHandler, udfpsInit, teardown,
                 sessVars, ipcVars, drvVars>>

\* A type table with the two under-display types exchanged.
SensorTypeExchanged(prop) ==
  CASE prop = "udfps" -> "UNDER_DISPLAY_OPTICAL"
    [] prop = "udfps_optical" -> "UNDER_DISPLAY_ULTRASONIC"
    [] prop = "side" -> "POWER_BUTTON"
    [] prop = "home" -> "HOME_BUTTON"
    [] prop = "rear" -> "REAR"
    [] OTHER -> "UNKNOWN"

\* The sensor type the constructor sets for a "type" value.
SensorTypeOf(prop) ==
  CASE prop = "udfps" -> "UNDER_DISPLAY_ULTRASONIC"
    [] prop = "udfps_optical" -> "UNDER_DISPLAY_OPTICAL"
    [] prop = "side" -> "POWER_BUTTON"
    [] prop = "home" -> "HOME_BUTTON"
    [] prop = "rear" -> "REAR"
    [] OTHER -> "UNKNOWN"

\* A constructor whose last branch only logs.
NoFatalType(prop) == FALSE

\* Whether the constructor ends in UNIMPLEMENTED(FATAL) for a "type" value.
IsFatalType(prop) ==
  prop \notin {"udfps", "udfps_optical", "side", "home", "rear"}

\* The rest of the constructor: sensor type and under-display handler.
\* factory: getUdfpsHandlerFactory() returned one; created: create() did.
CtorType(a, factory, created) ==
  /\ ~aborted
  /\ cpc[a] = "type"
  /\ LET prop == config.type
         udfps == prop = "udfps" \/ prop = "udfps_optical"
     IN /\ sensorTypeProp' = [sensorTypeProp EXCEPT ![a] = prop]
        /\ mSensorType' = [mSensorType EXCEPT ![a] = SensorTypeOf(prop)]
        /\ mUdfpsHandlerFactory' =
             [mUdfpsHandlerFactory EXCEPT ![a] = IF udfps THEN factory ELSE @]
        /\ mUdfpsHandler' =
             [mUdfpsHandler EXCEPT ![a] = IF udfps /\ factory THEN created ELSE @]
        /\ udfpsInit' =
             [udfpsInit EXCEPT ![a] = IF udfps /\ factory /\ created THEN mDevice[a] ELSE @]
        /\ aborted' = IsFatalType(prop)
        /\ cpc' = [cpc EXCEPT ![a] = IF IsFatalType(prop) THEN "fatal" ELSE "done"]
  /\ UNCHANGED <<config, sInstance, idx, mDevice, attempts, halOutcome, openCount,
                 registered, teardown, sessVars, ipcVars, drvVars>>

\* -------------------------------------------------------------- destruction
\* A destructor that calls destroy without testing mUdfpsHandler.
Dtor_HandlerUntested(a) ==
  /\ ~aborted
  /\ cpc[a] = "done"
  /\ teardown' = [teardown EXCEPT ![a] = Append(@, "destroy")]
  /\ cpc' = [cpc EXCEPT ![a] = "dtor"]
  /\ UNCHANGED <<config, aborted, sInstance, idx, mDevice, attempts, halOutcome,
                 openCount, registered, sensorTypeProp, mSensorType,
                 mUdfpsHandlerFactory, mUdfpsHandler, udfpsInit,
                 sessVars, ipcVars, drvVars>>

\* Lines 110-113: the under-display handler, if one is installed, is
\* destroyed through its factory.
Dtor_Handler(a) ==
  /\ ~aborted
  /\ cpc[a] = "done"
  /\ teardown' = [teardown EXCEPT ![a] =
                     IF mUdfpsHandler[a] THEN Append(@, "destroy") ELSE @]
  /\ cpc' = [cpc EXCEPT ![a] = "dtor"]
  /\ UNCHANGED <<config, aborted, sInstance, idx, mDevice, attempts, halOutcome,
                 openCount, registered, sensorTypeProp, mSensorType,
                 mUdfpsHandlerFactory, mUdfpsHandler, udfpsInit,
                 sessVars, ipcVars, drvVars>>

\* A destructor that forgets the handle whatever close returned.
Dtor_CloseAndForget(a, err) ==
  /\ ~aborted
  /\ cpc[a] = "dtor"
  /\ teardown' = [teardown EXCEPT ![a] =
                     Append(@, IF mDevice[a] = 0 THEN "no_device"
                               ELSE IF err THEN "close_failed" ELSE "closed")]
  /\ mDevice' = [mDevice EXCEPT ![a] = 0]
  /\ openCount' = IF mDevice[a] # 0 /\ ~err THEN openCount - 1 ELSE openCount
  /\ registered' = [registered EXCEPT ![a] = @ /\ (mDevice[a] = 0 \/ err)]
  /\ cpc' = [cpc EXCEPT ![a] = "dead"]
  /\ UNCHANGED <<config, aborted, sInstance, idx, attempts, halOutcome,
                 sensorTypeProp, mSensorType, mUdfpsHandlerFactory, mUdfpsHandler,
                 udfpsInit, sessVars, ipcVars, drvVars>>

\* Lines 114-123: without a device the destructor returns; otherwise the
\* driver's close is called (err: it returns nonzero), and mDevice is set to
\* nullptr after a close that succeeded. A closed driver delivers no more
\* events. sInstance is left as it is.
Dtor_Close(a, err) ==
  /\ ~aborted
  /\ cpc[a] = "dtor"
  /\ IF mDevice[a] = 0
     THEN /\ teardown' = [teardown EXCEPT ![a] = Append(@, "no_device")]
          /\ UNCHANGED <<mDevice, openCount, registered>>
     ELSE IF err
     THEN /\ teardown' = [teardown EXCEPT ![a] = Append(@, "close_failed")]
          /\ UNCHANGED <<mDevice, openCount, registered>>
     ELSE /\ teardown' = [teardown EXCEPT ![a] = Append(@, "closed")]
          /\ mDevice' = [mDevice EXCEPT ![a] = 0]
          /\ openCount' = openCount - 1
          /\ registered' = [registered EXCEPT ![a] = FALSE]
  /\ cpc' = [cpc EXCEPT ![a] = "dead"]
  /\ UNCHANGED <<config, aborted, sInstance, idx, attempts, halOutcome,
                 sensorTypeProp, mSensorType, mUdfpsHandlerFactory, mUdfpsHandler,
                 udfpsInit, sessVars, ipcVars, drvVars>>

\* ---------------------------------------------------------------- sessions
\* The Session collaborator (not part of Fingerprint.cpp): construction,
\* isClosed(), close(), notify(msg), linkToDeath(binder) and the death
\* notification of a linked client.

\* SharedRefBase::make<Session>(mDevice, mUdfpsHandler, userId, cb,
\* mLockoutTracker): the constructed object, as the constructing thread
\* sees it. No lock or atomic orders the constructor's stores before the
\* store to mSession, so another thread that reads mSession without the
\* IPC layer's serialisation may find the object before those stores have
\* reached it (visible).
MakeSession(device, udfps, cb) ==
  [constructed |-> TRUE, visible |-> FALSE, closed |-> FALSE, device |-> device,
   udfps |-> udfps, cb |-> cb, owner |-> 0, links |-> {}, obit |-> FALSE,
   handed |-> {}]

\* What isClosed() may answer a thread that reached Session s through
\* mSession: the state s is in, or anything while the constructor's stores
\* have not reached that thread.
isClosed(s) == IF sess[s].visible THEN {sess[s].closed} ELSE BOOLEAN

\* The constructor's stores of Session s reach the other threads.
StoresVisible(s) ==
  /\ ~aborted
  /\ sess[s].constructed
  /\ ~sess[s].visible
  /\ sess' = [sess EXCEPT ![s].visible = TRUE]
  /\ UNCHANGED <<config, aborted, ctorVars, mSession, nextSid, clientAlive,
                 ipcVars, drvVars>>

\* Session::linkToDeath(binder): the death link is made on a live client;
\* on a dead one the binder layer refuses the link.
LinkToDeath(session, c, alive) ==
  IF alive THEN [session EXCEPT !.links = @ \cup {c}] ELSE session

\* Session::notify(msg): the entry the event leaves in the log.
SessionNotify(ev, s, msg) ==
  [ev |-> ev, kind |-> "forwarded", sess |-> s, msg |-> msg,
   closed |-> sess[s].closed,
   constructed |-> sess[s].constructed /\ sess[s].visible]

Dropped(ev, msg) ==
  [ev |-> ev, kind |-> "dropped", sess |-> 0, msg |-> msg,
   closed |-> FALSE, constructed |-> FALSE]

\* The entry of an event that went through the adapter a (0: none); live:
\* a had not been destroyed.
Through(a, entry) ==
  entry @@ [adapter |-> a, live |-> a # 0 /\ cpc[a] # "dead"]

\* The client process c dies: every Session linked to it gets a death
\* notification, delivered later.
ClientDies(c) ==
  /\ ~aborted
  /\ clientAlive[c]
  /\ clientAlive' = [clientAlive EXCEPT ![c] = FALSE]
  /\ sess' = [s \in SessionIds |->
                IF c \in sess[s].links THEN [sess[s] EXCEPT !.obit = TRUE] ELSE sess[s]]
  /\ UNCHANGED <<config, aborted, ctorVars, mSession, nextSid, ipcVars, drvVars>>

\* The death notification reaches Session s, which closes.
OnClientDeath(s) ==
  /\ ~aborted
  /\ sess[s].obit
  /\ sess' = [sess EXCEPT ![s].obit = FALSE, ![s].closed = TRUE]
  /\ UNCHANGED <<config, aborted, ctorVars, mSession, nextSid, clientAlive,
                 ipcVars, drvVars>>

\* A live client that was handed Session s closes it.
CloseSession(s) ==
  /\ ~aborted
  /\ ~sess[s].closed
  /\ \E c \in sess[s].handed : clientAlive[c]
  /\ sess' = [sess EXCEPT ![s].closed = TRUE]
  /\ UNCHANGED <<config, aborted, ctorVars, mSession, nextSid, clientAlive,
                 ipcVars, drvVars>>

\* ----------------------------------------------------------- createSession
\* The calls that are past the entry and have not made their Session yet.
Making == {t \in Threads : tpc[t] \in {"cs_closed", "cs_make"}}

\* Line 238, first operand of the CHECK: mSession == nullptr.
createSession_Enter(t, a, c) ==
  /\ ~aborted
  /\ cpc[a] = "done"
  /\ tpc[t] = "idle"
  /\ clientAlive[c]
  /\ nextSid + Cardinality(Making) <= MaxSessions
  /\ tpc' = [tpc EXCEPT ![t] = IF mSession[a] = 0 THEN "cs_make" ELSE "cs_closed"]
  /\ tthis' = [tthis EXCEPT ![t] = a]
  /\ tcb' = [tcb EXCEPT ![t] = c]
  /\ temp' = [temp EXCEPT ![t] = 0]
  /\ csOut' = [csOut EXCEPT ![t] = 0]
  /\ UNCHANGED <<config, aborted, ctorVars, sessVars, gspCfg, lastRet, invalidLocLogs, drvVars>>

\* A createSession without the CHECK on isClosed().
createSession_Unchecked(t) ==
  /\ ~aborted
  /\ tpc[t] = "cs_closed"
  /\ tpc' = [tpc EXCEPT ![t] = "cs_make"]
  /\ UNCHANGED <<config, aborted, ctorVars, sessVars, tthis, tcb, temp, csOut,
                 gspCfg, lastRet, invalidLocLogs, drvVars>>

\* Line 238, second operand: mSession->isClosed(); the CHECK fails when the
\* session is not closed.
createSession_Closed(t) ==
  /\ ~aborted
  /\ tpc[t] = "cs_closed"
  /\ \E closed \in isClosed(mSession[tthis[t]]) :
       IF closed
       THEN /\ tpc' = [tpc EXCEPT ![t] = "cs_make"]
            /\ aborted' = aborted
       ELSE /\ tpc' = [tpc EXCEPT ![t] = "fatal"]
            /\ aborted' = TRUE
  /\ UNCHANGED <<config, ctorVars, sessVars, tthis, tcb, temp, csOut, gspCfg,
                 lastRet, invalidLocLogs, drvVars>>

\* Line 240, right-hand side: the new Session is made.
createSession_Make(t) ==
  /\ ~aborted
  /\ tpc[t] = "cs_make"
  /\ sess' = [sess EXCEPT ![nextSid] =
                MakeSession(mDevice[tthis[t]], mUdfpsHandler[tthis[t]], tcb[t])]
  /\ temp' = [temp EXCEPT ![t] = nextSid]
  /\ nextSid' = nextSid + 1
  /\ tpc' = [tpc EXCEPT ![t] = "cs_assign"]
  /\ UNCHANGED <<config, aborted, ctorVars, mSession, clientAlive, tthis, tcb,
                 csOut, gspCfg, lastRet, invalidLocLogs, drvVars>>

\* Line 240, the assignment to mSession.
createSession_Assign(t) ==
  /\ ~aborted
  /\ tpc[t] = "cs_assign"
  /\ mSession' = [mSession EXCEPT ![tthis[t]] = temp[t]]
  /\ sess' = [sess EXCEPT ![temp[t]].owner = tthis[t]]
  /\ tpc' = [tpc EXCEPT ![t] = "cs_out"]
  /\ UNCHANGED <<config, aborted, ctorVars, nextSid, clientAlive, tthis, tcb,
                 temp, csOut, gspCfg, lastRet, invalidLocLogs, drvVars>>

\* Line 241: *out = mSession.
createSession_Out(t) ==
  /\ ~aborted
  /\ tpc[t] = "cs_out"
  /\ csOut' = [csOut EXCEPT ![t] = mSession[tthis[t]]]
  /\ tpc' = [tpc EXCEPT ![t] = "cs_link"]
  /\ UNCHANGED <<config, aborted, ctorVars, sessVars, tthis, tcb, temp, gspCfg,
                 lastRet, invalidLocLogs, drvVars>>

\* Lines 243-245: mSession->linkToDeath(cb->asBinder().get()), its result
\* dropped, and the return; the caller now holds *out. The call into the
\* binder driver orders this thread's earlier stores, so the Session this
\* thread made is visible to every thread from here on.
createSession_Link(t) ==
  /\ ~aborted
  /\ tpc[t] = "cs_link"
  /\ LET s == mSession[tthis[t]]
         linked == [sess EXCEPT ![s] = LinkToDeath(@, tcb[t], clientAlive[tcb[t]])]
         handed == [linked EXCEPT ![csOut[t]].handed = @ \cup {tcb[t]}]
     IN sess' = [handed EXCEPT ![temp[t]].visible = TRUE]
  /\ lastRet' = [call |-> "createSession", status |-> "ok", out |-> csOut[t]]
  /\ tpc' = [tpc EXCEPT ![t] = "idle"]
  /\ tthis' = [tthis EXCEPT ![t] = 0]
  /\ tcb' = [tcb EXCEPT ![t] = 0]
  /\ temp' = [temp EXCEPT ![t] = 0]
  /\ csOut' = [csOut EXCEPT ![t] = 0]
  /\ UNCHANGED <<config, aborted, ctorVars, mSession, nextSid, clientAlive,
                 gspCfg, invalidLocLogs, drvVars>>

\* ---------------------------------------------------------- getSensorProps
\* Lines 206-220: the configuration is read.
getSensorProps_Enter(t, a) ==
  /\ ~aborted
  /\ cpc[a] = "done"
  /\ tpc[t] = "idle"
  /\ tpc' = [tpc EXCEPT ![t] = "gsp_out"]
  /\ tthis' = [tthis EXCEPT ![t] = a]
  /\ gspCfg' = [gspCfg EXCEPT ![t] = config]
  /\ UNCHANGED <<config, aborted, ctorVars, sessVars, tcb, temp, csOut, lastRet, invalidLocLogs,
                 drvVars>>

\* A descriptor whose enrollment limit follows the sensor strength.
SensorPropsByStrength(cfg, sensorType) ==
  << [commonProps |->
        [sensorId |-> cfg.sensor_id,
         sensorStrength |-> cfg.sensor_strength,
         maxEnrollmentsPerUser |-> cfg.sensor_strength,
         componentInfo |-> << >>],
      sensorType |-> sensorType,
      sensorLocations |-> getSensorLocations(cfg.sensor_location).locations,
      supportsNavigationGestures |-> cfg.navigation_gesture,
      supportsDetectInteraction |-> cfg.detect_interaction,
      halHandlesDisplayTouches |-> cfg.display_touch,
      halControlsIllumination |-> cfg.control_illumination] >>

\* The descriptor list getSensorProps assembles from the configuration
\* values it read and mSensorType.
SensorProps(cfg, sensorType) ==
  << [commonProps |->
        [sensorId |-> cfg.sensor_id,
         sensorStrength |-> cfg.sensor_strength,
         maxEnrollmentsPerUser |-> MAX_ENROLLMENTS_PER_USER,
         componentInfo |->
           << [componentId |-> "fingerprintSensor",
               hardwareVersion |-> "vendor/model/revision",
               firmwareVersion |-> "1.01", serialNumber |-> "00000001",
               softwareVersion |-> ""],
              [componentId |-> "matchingAlgorithm", hardwareVersion |-> "",
               firmwareVersion |-> "", serialNumber |-> "",
               softwareVersion |-> "vendor/version/revision"] >>],
      sensorType |-> sensorType,
      sensorLocations |-> getSensorLocations(cfg.sensor_location).locations,
      supportsNavigationGestures |-> cfg.navigation_gesture,
      supportsDetectInteraction |-> cfg.detect_interaction,
      halHandlesDisplayTouches |-> cfg.display_touch,
      halControlsIllumination |-> cfg.control_illumination] >>

\* A capability query that drops the installed session on its way out.
getSensorProps_ReturnAndReset(t) ==
  /\ ~aborted
  /\ tpc[t] = "gsp_out"
  /\ lastRet' = [call |-> "getSensorProps", status |-> "ok",
                 out |-> SensorProps(gspCfg[t], mSensorType[tthis[t]])]
  /\ invalidLocLogs' = getSensorLocations(gspCfg[t].sensor_location).logged
  /\ mSession' = [mSession EXCEPT ![tthis[t]] = 0]
  /\ tpc' = [tpc EXCEPT ![t] = "idle"]
  /\ tthis' = [tthis EXCEPT ![t] = 0]
  /\ gspCfg' = [gspCfg EXCEPT ![t] = << >>]
  /\ UNCHANGED <<config, aborted, ctorVars, sess, nextSid, clientAlive, tcb, temp,
                 csOut, drvVars>>

\* Lines 227-232: *out is written and the call returns.
getSensorProps_Return(t) ==
  /\ ~aborted
  /\ tpc[t] = "gsp_out"
  /\ lastRet' = [call |-> "getSensorProps", status |-> "ok",
                 out |-> SensorProps(gspCfg[t], mSensorType[tthis[t]])]
  /\ invalidLocLogs' = getSensorLocations(gspCfg[t].sensor_location).logged
  /\ tpc' = [tpc EXCEPT ![t] = "idle"]
  /\ tthis' = [tthis EXCEPT ![t] = 0]
  /\ gspCfg' = [gspCfg EXCEPT ![t] = << >>]
  /\ UNCHANGED <<config, aborted, ctorVars, sessVars, tcb, temp, csOut, drvVars>>

\* ------------------------------------------------------------------ notify
\* A driver that holds the callback delivers an event. Line 197 and the
\* first operand of line 198: thisPtr = sInstance; thisPtr == nullptr.
notify_Enter(d, msg) ==
  /\ ~aborted
  /\ \E a \in Adapters : registered[a]
  /\ npc[d] = "idle"
  /\ evCount < MaxEvents
  /\ evCount' = evCount + 1
  /\ IF sInstance = 0
     THEN /\ log' = Append(log, Through(0, Dropped(evCount + 1, msg)))
          /\ UNCHANGED <<npc, thisPtr, nmsg, nev>>
     ELSE /\ log' = log
          /\ npc' = [npc EXCEPT ![d] = "n_null"]
          /\ thisPtr' = [thisPtr EXCEPT ![d] = sInstance]
          /\ nmsg' = [nmsg EXCEPT ![d] = msg]
          /\ nev' = [nev EXCEPT ![d] = evCount + 1]
  /\ UNCHANGED <<config, aborted, ctorVars, sessVars, ipcVars>>

\* The callback returns: its locals are gone.
notify_Exit(d) ==
  /\ npc' = [npc EXCEPT ![d] = "idle"]
  /\ thisPtr' = [thisPtr EXCEPT ![d] = 0]
  /\ nmsg' = [nmsg EXCEPT ![d] = "none"]
  /\ nev' = [nev EXCEPT ![d] = 0]

\* What the read of a->mSession may give: the member, or, once a has been
\* destroyed and thisPtr dangles, nullptr, the pointer the member held, or
\* a pointer to nothing (-1).
ReadSession(a) ==
  IF cpc[a] # "dead" THEN {mSession[a]} ELSE {0, mSession[a], -1}

\* Line 198, second operand: thisPtr->mSession == nullptr. A wild pointer
\* is not null, and the isClosed() call through it ends the process.
notify_Null(d) ==
  /\ npc[d] = "n_null"
  /\ ~aborted
  /\ \E s \in ReadSession(thisPtr[d]) :
       IF s = 0
       THEN /\ log' = Append(log, Through(thisPtr[d], Dropped(nev[d], nmsg[d])))
            /\ notify_Exit(d)
            /\ aborted' = aborted
       ELSE IF s = -1
       THEN /\ log' = log
            /\ npc' = [npc EXCEPT ![d] = "crashed"]
            /\ aborted' = TRUE
            /\ UNCHANGED <<thisPtr, nmsg, nev>>
       ELSE /\ log' = log
            /\ npc' = [npc EXCEPT ![d] = "n_closed"]
            /\ aborted' = aborted
            /\ UNCHANGED <<thisPtr, nmsg, nev>>
  /\ UNCHANGED <<config, ctorVars, sessVars, ipcVars, evCount>>

\* A router without the isClosed() test.
notify_Unchecked(d) ==
  /\ ~aborted
  /\ npc[d] = "n_closed"
  /\ npc' = [npc EXCEPT ![d] = "n_fwd"]
  /\ UNCHANGED <<config, aborted, ctorVars, sessVars, ipcVars, thisPtr, nmsg,
                 nev, evCount, log>>

\* Line 198, third operand: thisPtr->mSession->isClosed().
notify_Closed(d) ==
  /\ ~aborted
  /\ npc[d] = "n_closed"
  /\ \E closed \in isClosed(mSession[thisPtr[d]]) :
       IF closed
       THEN /\ log' = Append(log, Through(thisPtr[d], Dropped(nev[d], nmsg[d])))
            /\ notify_Exit(d)
       ELSE /\ log' = log
            /\ npc' = [npc EXCEPT ![d] = "n_fwd"]
            /\ UNCHANGED <<thisPtr, nmsg, nev>>
  /\ UNCHANGED <<config, aborted, ctorVars, sessVars, ipcVars, evCount>>

\* Line 202: thisPtr->mSession->notify(msg).
notify_Forward(d) ==
  /\ ~aborted
  /\ npc[d] = "n_fwd"
  /\ log' = Append(log, Through(thisPtr[d],
                             SessionNotify(nev[d], mSession[thisPtr[d]], nmsg[d])))
  /\ notify_Exit(d)
  /\ UNCHANGED <<config, aborted, ctorVars, sessVars, ipcVars, evCount>>

\* ----------------------------------------------------------- specifications
\* No call is in progress and every store has reached every thread.
Quiet ==
  /\ \A t \in Threads : tpc[t] = "idle"
  /\ \A d \in DriverThreads : npc[d] = "idle"
  /\ \A s \in SessionIds : sess[s].constructed => sess[s].visible

CtorStep ==
  \E a \in TheAdapter :
    \/ CtorBegin(a)
    \/ \E outcome \in HalOutcomes : CtorProbe(a, outcome)
    \/ \E factory, created \in BOOLEAN : CtorType(a, factory, created)

EnvStep ==
  \/ \E c \in Clients : ClientDies(c)
  \/ \E s \in SessionIds : OnClientDeath(s)
  \/ \E s \in SessionIds : CloseSession(s)

\* The calls the IPC layer may start on the dispatch threads T.
IpcStart(T) ==
  \/ \E t \in T, a \in TheAdapter, c \in Clients : createSession_Enter(t, a, c)
  \/ \E t \in T, a \in TheAdapter : getSensorProps_Enter(t, a)

\* The driver delivers an event.
DriverStart ==
  \E d \in DriverThreads, msg \in Msgs : notify_Enter(d, msg)

ThreadStep(t) ==
  \/ createSession_Closed(t)
  \/ createSession_Make(t)
  \/ createSession_Assign(t)
  \/ createSession_Out(t)
  \/ createSession_Link(t)
  \/ getSensorProps_Return(t)

DriverStep(d) ==
  \/ notify_Null(d)
  \/ notify_Closed(d)
  \/ notify_Forward(d)

CallStep ==
  \/ \E t \in Threads : ThreadStep(t)
  \/ \E d \in DriverThreads : DriverStep(d)
  \/ \E s \in SessionIds : StoresVisible(s)

\* The life of one adapter, from its construction to its destruction,
\* whose callers and driver act one at a time (an operation starts only
\* when no other is in progress) and whose clients stay alive and close no
\* session.
InitLife ==
  /\ InitAdapters
  /\ InitCalls
  /\ config \in {ConfigOf(type, << >>) : type \in TypeProps}

DtorStep ==
  \E a \in TheAdapter :
    \/ Dtor_Handler(a)
    \/ \E err \in BOOLEAN : Dtor_Close(a, err)

NextLife ==
  \/ Quiet /\ CtorStep
  \/ Quiet /\ DtorStep
  \/ Quiet /\ IpcStart({1})
  \/ Quiet /\ evCount < MaxLifeEvents /\ DriverStart
  \/ CallStep

SpecLife == InitLife /\ [][NextLife]_vars

\* The adapter the service has constructed: "fpc" opened after "fortsense"
\* failed to load; a side sensor, or an under-display one with its handler.
InitServingAt(types, locs) ==
  /\ InitCalls
  /\ \E type \in types, loc \in locs :
       /\ config = ConfigOf(type, loc)
       /\ sensorTypeProp = [a \in Adapters |-> IF a = 1 THEN type ELSE ""]
       /\ mSensorType = [a \in Adapters |-> IF a = 1 THEN SensorTypeOf(type) ELSE "UNKNOWN"]
       /\ mUdfpsHandlerFactory = [a \in Adapters |-> a = 1 /\ type = "udfps"]
       /\ mUdfpsHandler = [a \in Adapters |-> a = 1 /\ type = "udfps"]
       /\ udfpsInit = [a \in Adapters |-> IF a = 1 /\ type = "udfps" THEN 2 ELSE -1]
  /\ teardown = [a \in Adapters |-> << >>]
  /\ sInstance = 1
  /\ cpc = [a \in Adapters |-> IF a = 1 THEN "done" ELSE "unborn"]
  /\ idx = [a \in Adapters |-> IF a = 1 THEN 2 ELSE 1]
  /\ mDevice = [a \in Adapters |-> IF a = 1 THEN 2 ELSE 0]
  /\ attempts = [a \in Adapters |->
       IF a = 1
       THEN << [class_name |-> kModules[1],
                class_module_id |-> FINGERPRINT_HARDWARE_MODULE_ID,
                index |-> 1, opened |-> FALSE],
               [class_name |-> kModules[2],
                class_module_id |-> FINGERPRINT_HARDWARE_MODULE_ID,
                index |-> 2, opened |-> TRUE] >>
       ELSE << >>]
  /\ halOutcome = [a \in Adapters |-> IF a = 1 THEN "ok" ELSE "none"]
  /\ openCount = 1
  /\ registered = [a \in Adapters |-> a = 1]

InitServing(types) == InitServingAt(types, { << >> })

\* The constructed adapter with callers and driver acting one at a time.
NextSeq ==
  \/ Quiet /\ EnvStep
  \/ Quiet /\ IpcStart({1})
  \/ Quiet /\ DriverStart
  \/ CallStep

InitSeq == InitServingAt({"side", "udfps"}, LocTexts)

SpecSeq == InitSeq /\ [][NextSeq]_vars

\* The constructed adapter under concurrent IPC dispatch threads, driver
\* callback threads and client deaths.
Next ==
  \/ EnvStep
  \/ IpcStart(Threads)
  \/ evCount < MaxRaceEvents /\ DriverStart
  \/ CallStep

Init == InitServing({"udfps"})

Spec == Init /\ [][Next]_vars

\* ------------------------------------------------------------------ claims
\* The adapter a has a session installed that has not closed.
HasOpenSession(a) == mSession[a] # 0 /\ ~sess[mSession[a]].closed

\* C1. Calls issued one at a time: a createSession call made while the
\* installed session is open fails its CHECK, the process dies and the
\* installed session stays; a call made when no session is installed, or the
\* installed one is closed, passes the CHECK, and installs and returns a new,
\* constructed, open session bound to the caller's callback.
SequentialSessionLifecycle ==
  \A t \in Threads :
    /\ tpc[t] = "fatal" =>
         /\ aborted
         /\ HasOpenSession(tthis[t])
         /\ \A s \in SessionIds : sess[s].constructed => s <= mSession[tthis[t]]
    /\ tpc[t] = "cs_closed" => mSession[tthis[t]] # 0
    /\ tpc[t] = "cs_make" => ~aborted /\ ~HasOpenSession(tthis[t])
    /\ tpc[t] = "cs_assign" =>
         /\ ~aborted /\ ~HasOpenSession(tthis[t])
         /\ temp[t] > mSession[tthis[t]]
    /\ tpc[t] \in {"cs_out", "cs_link"} =>
         /\ ~aborted
         /\ mSession[tthis[t]] = temp[t]
         /\ HasOpenSession(tthis[t])
         /\ sess[temp[t]].constructed
         /\ sess[temp[t]].cb = tcb[t]
    /\ tpc[t] = "cs_link" => csOut[t] = temp[t]
    /\ (tpc[t] = "idle" /\ lastRet.call = "createSession" /\ Quiet) =>
         /\ lastRet.status = "ok"
         /\ lastRet.out = mSession[1]
         /\ sess[lastRet.out].constructed

\* A second session is being returned after the first one closed.
SecondSessionAfterClose ==
  \E t \in Threads :
    /\ tpc[t] = "cs_link"
    /\ mSession[1] = 2
    /\ sess[1].closed
    /\ ~sess[2].closed

\* C2. Under concurrent dispatch threads at most one session handed to a
\* client is open, and a session that mSession no longer points to was
\* closed when it was replaced.
SingleActiveSession ==
  /\ Cardinality({s \in SessionIds : sess[s].handed # {} /\ ~sess[s].closed}) <= 1
  /\ \A s \in SessionIds :
       (sess[s].owner # 0 /\ mSession[sess[s].owner] # s) => sess[s].closed

\* C3. Events delivered one at a time: an event that finds no session
\* installed, or the installed session closed, is dropped; an event that
\* finds the installed session open is forwarded to it, with its message,
\* in one Session::notify call; no event leaves two entries, and nothing
\* changes the sessions while an event is being delivered.
RoutedEntry(e) ==
  IF sInstance # 0 /\ HasOpenSession(sInstance)
  THEN /\ e.kind = "forwarded"
       /\ e.sess = mSession[sInstance]
       /\ ~e.closed
       /\ \E d \in DriverThreads : npc[d] # "idle" /\ nev[d] = e.ev /\ nmsg[d] = e.msg
  ELSE /\ e.kind = "dropped"
       /\ e.sess = 0

NotificationRouting ==
  /\ [](/\ \A i, j \in DOMAIN log : i # j => log[i].ev # log[j].ev
        /\ Len(log) + Cardinality({d \in DriverThreads : npc[d] # "idle"}) = evCount
        /\ \A d \in DriverThreads : npc[d] = "n_fwd" => HasOpenSession(thisPtr[d]))
  /\ [][/\ log' # log =>
             /\ Len(log') = Len(log) + 1
             /\ SubSeq(log', 1, Len(log)) = log
             /\ RoutedEntry(log'[Len(log')])
        /\ (\E d \in DriverThreads : npc[d] # "idle") =>
             /\ mSession' = mSession
             /\ \A s \in SessionIds : sess'[s].closed = sess[s].closed]_vars

\* One event was forwarded to a session that closed afterwards, and the next
\* event was dropped.
ForwardedThenDropped ==
  /\ Len(log) = 2
  /\ log[1].kind = "forwarded"
  /\ log[2].kind = "dropped"
  /\ sess[log[1].sess].closed
  /\ mSession[1] = log[1].sess

\* C4. A close that races with a delivery: Session::notify is never called
\* on a session that is closed when the call is made.
NoForwardToClosedSession ==
  \A i \in DOMAIN log : log[i].kind = "forwarded" => ~log[i].closed

\* C5. An event routed while or after createSession runs reaches only a
\* session whose construction the routing thread sees complete, and
\* mSession never points to anything but a constructed session.
RoutedOnlyToConstructed ==
  /\ \A a \in Adapters : mSession[a] # 0 => sess[mSession[a]].constructed
  /\ \A i \in DOMAIN log : log[i].kind = "forwarded" => log[i].constructed

\* C6. A session that was installed while the client that owns it was alive
\* closes once that client is dead (unless the process has died), with no
\* close call from the client.
InstalledForLiveClient(s) ==
  /\ \E a \in Adapters : mSession[a] = s
  /\ sess[s].cb # 0
  /\ clientAlive[sess[s].cb]

OwnerDead(s) == sess[s].cb # 0 /\ ~clientAlive[sess[s].cb]

Goodix == <<"g","o","o","d","i","x">>
GfFingerprint == <<"g","f","_","f","i","n","g","e","r","p","r","i","n","t">>

DriverResolutionOrder ==
  \A a \in Adapters :
    LET n == Len(attempts[a])
    IN /\ n <= NumModules
       /\ \A i \in 1..n :
            /\ attempts[a][i].index = i
            /\ attempts[a][i].class_name = ClassName(kModules[i])
            /\ attempts[a][i].class_module_id = ClassModuleId(kModules[i])
            /\ i < n => ~attempts[a][i].opened
       /\ n >= 5 => /\ attempts[a][5].class_name = Goodix
                    /\ attempts[a][5].class_module_id = GfFingerprint
       /\ n >= 4 => /\ attempts[a][4].class_name = Goodix
                    /\ attempts[a][4].class_module_id = FINGERPRINT_HARDWARE_MODULE_ID
       /\ n > 0 => /\ attempts[a][n].opened <=> halOutcome[a] = "ok"
                   /\ cpc[a] # "dead" =>
                        mDevice[a] = IF halOutcome[a] = "ok" THEN n ELSE 0
       /\ n = 0 => mDevice[a] = 0
       /\ cpc[a] = "probe" => idx[a] = n + 1 /\ halOutcome[a] # "ok"
       /\ cpc[a] \notin {"unborn", "probe"} => halOutcome[a] = "ok" \/ n = NumModules

\* The fifth entry, "goodix:gf_fingerprint", opened after four failures.
FifthCandidateOpened ==
  /\ cpc[1] = "done"
  /\ mDevice[1] = 5
  /\ Len(attempts[1]) = 5

\* C8. An adapter whose every candidate failed is constructed with a null
\* handle, and createSession on it reports that the device is unavailable
\* and makes no session bound to the null handle.
DeviceUnavailableOnNullHandle ==
  \A a \in Adapters :
    (/\ cpc[a] = "done"
     /\ Len(attempts[a]) = NumModules
     /\ \A i \in 1..NumModules : ~attempts[a][i].opened)
      => /\ mDevice[a] = 0
         /\ \A s \in SessionIds : sess[s].constructed => sess[s].device # 0
         /\ lastRet.call = "createSession" => lastRet.status = "device_unavailable"

\* C9. A "type" value outside the five recognised ones ends the constructor
\* in a fatal abort: the adapter is never constructed, its sensor type is
\* never served as UNKNOWN, and no getSensorProps or createSession call is
\* ever started or answered.
FatalMisconfiguration ==
  /\ \A a \in Adapters :
       /\ cpc[a] = "done" => /\ sensorTypeProp[a] \in ValidTypeProps
                             /\ mSensorType[a] # "UNKNOWN"
       /\ (cpc[a] \in {"done", "fatal"} /\ sensorTypeProp[a] \notin ValidTypeProps)
            => cpc[a] = "fatal" /\ aborted
       /\ cpc[a] \in {"done", "fatal"} => sensorTypeProp[a] = config.type
  /\ config.type \notin ValidTypeProps =>
       /\ \A t \in Threads : tpc[t] = "idle"
       /\ lastRet = NoRet
       /\ nextSid = 1
       /\ \A a \in Adapters : mSession[a] = 0

\* The constructor has aborted on the type "front" after opening a driver.
AbortedOnUnknownType ==
  /\ cpc[1] = "fatal"
  /\ aborted
  /\ sensorTypeProp[1] = "front"
  /\ mSensorType[1] = "UNKNOWN"
  /\ mDevice[1] # 0

\* C10. The sensor type of a constructed adapter is the one the table gives
\* for the "type" value the constructor read, whatever became of the driver
\* resolution and of the under-display handler, and no later step changes
\* it.
SensorTypeMapping ==
  /\ [](\A a \in Adapters : cpc[a] \in {"done", "dtor", "dead"} =>
          /\ sensorTypeProp[a] = "udfps" => mSensorType[a] = "UNDER_DISPLAY_ULTRASONIC"
          /\ sensorTypeProp[a] = "udfps_optical" => mSensorType[a] = "UNDER_DISPLAY_OPTICAL"
          /\ sensorTypeProp[a] = "side" => mSensorType[a] = "POWER_BUTTON"
          /\ sensorTypeProp[a] = "home" => mSensorType[a] = "HOME_BUTTON"
          /\ sensorTypeProp[a] = "rear" => mSensorType[a] = "REAR")
  /\ [][\A a \in Adapters : cpc[a] \in {"done", "dtor", "dead"} =>
          /\ cpc'[a] \in {"done", "dtor", "dead"}
          /\ mSensorType'[a] = mSensorType[a]
          /\ sensorTypeProp'[a] = sensorTypeProp[a]]_vars

\* An optical under-display adapter without driver and without handler has
\* answered getSensorProps.
OpticalWithoutDriverOrHandler ==
  /\ cpc[1] = "done"
  /\ sensorTypeProp[1] = "udfps_optical"
  /\ mDevice[1] = 0
  /\ ~mUdfpsHandler[1]
  /\ mSensorType[1] = "UNDER_DISPLAY_OPTICAL"
  /\ lastRet.call = "getSensorProps"
  /\ lastRet.out[1].sensorType = "UNDER_DISPLAY_OPTICAL"

\* ------------------------------------------------- client death, with fairness
\* One dispatch thread, clients that may die or close at any moment, no
\* driver events. A call in progress runs to its end, a pending death
\* notification is delivered, stores reach the other threads.
NextLink ==
  \/ EnvStep
  \/ Quiet /\ IpcStart({1})
  \/ \E t \in Threads : ThreadStep(t)
  \/ \E s \in SessionIds : StoresVisible(s)

SpecLink ==
  /\ Init
  /\ [][NextLink]_vars
  /\ \A t \in Threads : WF_vars(ThreadStep(t))
  /\ \A s \in SessionIds : WF_vars(OnClientDeath(s))
  /\ \A s \in SessionIds : WF_vars(StoresVisible(s))

\* ------------------------------------------------------- the location parser
\* The capability query on a constructed adapter, for every location text.
InitParse == InitServingAt({"side"}, LocInputs)

NextParse ==
  \/ Quiet /\ getSensorProps_Enter(1, 1)
  \/ getSensorProps_Return(1)

SpecParse == InitParse /\ [][NextParse]_vars

\* A decimal integer: an optional sign and one digit or more.
DecimalDigits == <<"0", "1", "2", "3", "4", "5", "6", "7", "8", "9">>

Unsigned(f) == IF f # << >> /\ f[1] \in {"-", "+"} THEN Tail(f) ELSE f

IsDecimalText(f) ==
  /\ Unsigned(f) # << >>
  /\ \A i \in DOMAIN Unsigned(f) : \E n \in DOMAIN DecimalDigits : DecimalDigits[n] = Unsigned(f)[i]

RECURSIVE MagnitudeOf(_)
MagnitudeOf(ds) ==
  IF ds = << >> THEN 0
  ELSE 10 * MagnitudeOf(SubSeq(ds, 1, Len(ds) - 1))
       + (CHOOSE n \in DOMAIN DecimalDigits : DecimalDigits[n] = ds[Len(ds)]) - 1

DecimalValue(f) ==
  IF f[1] = "-" THEN 0 - MagnitudeOf(Unsigned(f)) ELSE MagnitudeOf(Unsigned(f))

\* An entry with 3 or 4 fields, the first three integers, the 4th not empty.
WellFormed(entry) ==
  LET f == Split(entry, "|")
  IN /\ Len(f) \in {3, 4}
     /\ \A i \in 1..3 : IsDecimalText(f[i])
     /\ Len(f) = 4 => f[4] # << >>

RecordOf(entry) ==
  LET f == Split(entry, "|")
  IN [sensorLocationX |-> DecimalValue(f[1]), sensorLocationY |-> DecimalValue(f[2]),
      sensorRadius |-> DecimalValue(f[3]),
      display |-> IF Len(f) = 4 THEN f[4] ELSE << >>]

WellFormedEntries(text) == SelectSeq(Split(text, ","), WellFormed)

\* C11. The locations a capability query returns are the records of the
\* well-formed entries of the location text, in the order of the text,
\* repeated entries included, and nothing else; the empty text gives the
\* empty sequence, and the query answers ok for every text.
LocationParsing ==
  lastRet.call = "getSensorProps" =>
    LET got == lastRet.out[1].sensorLocations
        kept == WellFormedEntries(config.sensor_location)
    IN /\ lastRet.status = "ok"
       /\ Len(got) = Len(kept)
       /\ \A i \in 1..Len(kept) : got[i] = RecordOf(kept[i])
       /\ config.sensor_location = << >> => got = << >>

\* Two equal well-formed entries gave two equal records.
DuplicateLocationsKept ==
  /\ lastRet.call = "getSensorProps"
  /\ config.sensor_location = <<"7","|","7","|","7","|","d",",","7","|","7","|","7","|","d">>
  /\ Len(lastRet.out[1].sensorLocations) = 2
  /\ lastRet.out[1].sensorLocations[1] = lastRet.out[1].sensorLocations[2]
  /\ lastRet.out[1].sensorLocations[1].display = <<"d">>

\* C12. Every returned location has a radius of 0 or more, and has a
\* display identifier only when its entry had 4 fields.
SensorLocationInvariant ==
  lastRet.call = "getSensorProps" =>
    LET got == lastRet.out[1].sensorLocations
        kept == WellFormedEntries(config.sensor_location)
    IN \A i \in 1..Len(got) :
         /\ got[i].sensorRadius >= 0
         /\ got[i].display # << >> => Len(Split(kept[i], "|")) = 4

\* C18. With a non-empty location text every entry of it that gave no
\* location was logged as invalid, and the empty text logs nothing.
MalformedEntriesLogged ==
  lastRet.call = "getSensorProps" =>
    LET text == config.sensor_location
    IN invalidLocLogs =
         IF text = << >> THEN 0
         ELSE Len(Split(text, ",")) - Len(lastRet.out[1].sensorLocations)

\* C14. No more than one driver device is open at any time.
OneOpenDevice == openCount <= 1

\* C15. The destructor destroys an installed under-display handler first;
\* it calls the driver's close only on a non-null handle; the handle is
\* null afterwards when close succeeded and stays when close failed.
Teardowns ==
  { << >>, <<"destroy">>,
    <<"no_device">>, <<"closed">>, <<"close_failed">>,
    <<"destroy", "no_device">>, <<"destroy", "closed">>, <<"destroy", "close_failed">> }

TeardownOrdering ==
  \A a \in Adapters :
    LET n == Len(teardown[a])
        hadDevice == halOutcome[a] = "ok"
    IN /\ teardown[a] \in Teardowns
       /\ cpc[a] \notin {"dtor", "dead"} => n = 0
       /\ cpc[a] \in {"dtor", "dead"} =>
            (mUdfpsHandler[a] <=> (n > 0 /\ teardown[a][1] = "destroy"))
       /\ cpc[a] = "dtor" => teardown[a] \in { << >>, <<"destroy">> }
       /\ cpc[a] = "dead" =>
            /\ n > 0
            /\ teardown[a][n] = "no_device" <=> ~hadDevice
            /\ teardown[a][n] = "closed" => mDevice[a] = 0
            /\ teardown[a][n] = "close_failed" => mDevice[a] = Len(attempts[a])
            /\ ~hadDevice => mDevice[a] = 0

\* An adapter with a handler was destroyed and the driver's close failed.
HandlerDestroyedCloseFailed ==
  /\ cpc[1] = "dead"
  /\ teardown[1] = <<"destroy", "close_failed">>
  /\ mDevice[1] # 0

\* C16. An event that arrives when there is no adapter, or after the
\* adapter was destroyed, is dropped, and the router does not end the
\* process.
NoRoutingWithoutAdapter ==
  /\ \A i \in DOMAIN log : ~log[i].live => log[i].kind = "dropped"
  /\ \A d \in DriverThreads : npc[d] # "crashed"

\* C17. An under-display adapter whose handler factory or handler is
\* missing is constructed with its under-display sensor type and without
\* handler, its createSession calls succeed, and its destructor destroys no
\* handler; an installed handler came from a factory and was initialised
\* with the driver handle; a side, home or rear adapter has no factory and
\* no handler, and none is initialised or destroyed.
UnderDisplayTypes == {"UNDER_DISPLAY_ULTRASONIC", "UNDER_DISPLAY_OPTICAL"}

OptionalUdfpsHandler ==
  \A a \in Adapters :
    LET udfps == sensorTypeProp[a] \in {"udfps", "udfps_optical"}
        destroyed == \E i \in DOMAIN teardown[a] : teardown[a][i] = "destroy"
    IN /\ cpc[a] = "fatal" => ~udfps
       /\ cpc[a] \in {"done", "dtor", "dead"} =>
            /\ udfps => mSensorType[a] \in UnderDisplayTypes
            /\ ~udfps => /\ sensorTypeProp[a] \in {"side", "home", "rear"}
                         /\ ~mUdfpsHandlerFactory[a]
                         /\ ~mUdfpsHandler[a]
            /\ ~mUdfpsHandlerFactory[a] => ~mUdfpsHandler[a]
            /\ ~mUdfpsHandler[a] => udfpsInit[a] = -1 /\ ~destroyed
            /\ mUdfpsHandler[a] =>
                 udfpsInit[a] = IF halOutcome[a] = "ok" THEN Len(attempts[a]) ELSE 0
            /\ (a = 1 /\ lastRet.call = "createSession") =>
                 /\ lastRet.status = "ok"
                 /\ lastRet.out # 0
                 /\ sess[lastRet.out].udfps = mUdfpsHandler[a]

\* An under-display adapter whose factory created no handler has served a
\* createSession call and was destroyed.
DestroyedWithoutHandler ==
  /\ cpc[1] = "dead"
  /\ sensorTypeProp[1] = "udfps"
  /\ mSensorType[1] = "UNDER_DISPLAY_ULTRASONIC"
  /\ mUdfpsHandlerFactory[1]
  /\ ~mUdfpsHandler[1]
  /\ lastRet.call = "createSession"
  /\ lastRet.status = "ok"
  /\ teardown[1] = <<"closed">>

\* C13. Every capability query answers ok with one descriptor that is
\* determined by the configuration values alone, with
\* maxEnrollmentsPerUser 5, whatever sessions were created or closed and
\* whatever events were delivered before it; a query that follows another
\* returns what that one returned.
TypeTable ==
  [udfps |-> "UNDER_DISPLAY_ULTRASONIC", udfps_optical |-> "UNDER_DISPLAY_OPTICAL",
   side |-> "POWER_BUTTON", home |-> "HOME_BUTTON", rear |-> "REAR"]

DescriptorOfConfig(d) ==
  /\ d.commonProps.sensorId = config.sensor_id
  /\ d.commonProps.sensorStrength = config.sensor_strength
  /\ d.commonProps.maxEnrollmentsPerUser = 5
  /\ Len(d.commonProps.componentInfo) = 2
  /\ d.commonProps.componentInfo[1].componentId = "fingerprintSensor"
  /\ d.commonProps.componentInfo[2].componentId = "matchingAlgorithm"
  /\ d.sensorType = TypeTable[config.type]
  /\ Len(d.sensorLocations) = Len(WellFormedEntries(config.sensor_location))
  /\ \A i \in DOMAIN d.sensorLocations :
       d.sensorLocations[i] = RecordOf(WellFormedEntries(config.sensor_location)[i])
  /\ d.supportsNavigationGestures = config.navigation_gesture
  /\ d.supportsDetectInteraction = config.detect_interaction
  /\ d.halHandlesDisplayTouches = config.display_touch
  /\ d.halControlsIllumination = config.control_illumination

CapabilityPurity ==
  /\ [](lastRet.call = "getSensorProps" =>
          /\ lastRet.status = "ok"
          /\ Len(lastRet.out) = 1
          /\ DescriptorOfConfig(lastRet.out[1]))
  /\ [][(lastRet.call = "getSensorProps" /\ lastRet'.call = "getSensorProps")
          => lastRet'.out = lastRet.out]_vars

\* A query answered after a session was created and closed and an event
\* was dropped, with two locations configured.
QueryAfterSessionAndEvent ==
  /\ lastRet.call = "getSensorProps"
  /\ Len(lastRet.out[1].sensorLocations) = 2
  /\ mSession[1] # 0
  /\ sess[mSession[1]].closed
  /\ Len(log) > 0

\* C19. The steps of a getSensorProps call leave the driver handle, the
\* under-display handler and its factory, the sensor type, mSession and
\* every session as they are, and neither open, close nor call the driver,
\* nor route an event.
IsQueryStep ==
  \E t \in Threads :
    \/ tpc[t] = "idle" /\ tpc'[t] = "gsp_out"
    \/ tpc[t] = "gsp_out" /\ tpc'[t] = "idle"

FrameOfGetSensorProps ==
  [][IsQueryStep =>
       /\ mDevice' = mDevice
       /\ mUdfpsHandler' = mUdfpsHandler
       /\ mUdfpsHandlerFactory' = mUdfpsHandlerFactory
       /\ udfpsInit' = udfpsInit
       /\ mSensorType' = mSensorType
       /\ mSession' = mSession
       /\ sess' = sess
       /\ openCount' = openCount
       /\ attempts' = attempts
       /\ registered' = registered
       /\ teardown' = teardown
       /\ sInstance' = sInstance
       /\ log' = log]_vars

\* A query has returned while a session was installed and open.
QueryWithOpenSession ==
  /\ lastRet.call = "getSensorProps"
  /\ HasOpenSession(1)
  /\ \A t \in Threads : tpc[t] = "idle"

\* ------------------------------------------------------------- two adapters
\* Two adapters constructed one after the other in one process, each with
\* a driver that loads or not, and their callers and drivers acting one at
\* a time.
CtorOf(a, outcomes) ==
  \/ CtorBegin(a)
  \/ \E outcome \in outcomes : CtorProbe(a, outcome)
  \/ \E factory, created \in BOOLEAN : CtorType(a, factory, created)

InitTwo ==
  /\ InitAdapters
  /\ InitCalls
  /\ config = ConfigOf("side", << >>)

NextTwo ==
  \/ Quiet /\ CtorOf(1, {"load_fail", "ok"})
  \/ Quiet /\ cpc[1] = "done" /\ CtorOf(2, {"load_fail", "ok"})
  \/ Quiet /\ \E a \in Adapters, c \in Clients : createSession_Enter(1, a, c)
  \/ Quiet /\ \E a \in Adapters : getSensorProps_Enter(1, a)
  \/ Quiet /\ evCount < MaxLifeEvents /\ DriverStart
  \/ CallStep

SpecTwo == InitTwo /\ [][NextTwo]_vars

\* C20. sInstance is the adapter whose constructor started last, from
\* before that adapter's driver is registered: no registered driver and no
\* event finds it null; every event goes through that adapter, is
\* forwarded to its session when that is open and is dropped otherwise,
\* whatever sessions the other adapter has.
MostRecent ==
  IF cpc[2] # "unborn" THEN 2 ELSE IF cpc[1] # "unborn" THEN 1 ELSE 0

MostRecentInstanceRouting ==
  /\ [](/\ sInstance = MostRecent
        /\ \A a \in Adapters : registered[a] => sInstance # 0
        /\ \A i \in DOMAIN log : log[i].adapter # 0 /\ log[i].live)
  /\ [][log' # log =>
          LET e == log'[Len(log')]
          IN /\ e.adapter = MostRecent
             /\ IF HasOpenSession(MostRecent)
                THEN e.kind = "forwarded" /\ e.sess = mSession[MostRecent]
                ELSE e.kind = "dropped"]_vars

\* The second adapter has no driver and no session, the first has an open
\* session, and the event of the first one's driver was dropped.
DroppedDespiteEarlierSession ==
  /\ cpc[2] = "done"
  /\ ~registered[2]
  /\ registered[1]
  /\ HasOpenSession(1)
  /\ Len(log) = 1
  /\ log[1].kind = "dropped"
  /\ log[1].adapter = 2

====
